---- MODULE Spec2Model ----
(***************************************************************************)
(* State-machine model of the Asteroids clone in src/app.py.               *)
(*                                                                         *)
(* One iteration of the `while running` loop of main() is split at the     *)
(* points the program itself separates with comments: input sampling,      *)
(* event processing, sprite update, bullet-vs-asteroid collisions,         *)
(* ship-vs-asteroid collision, drawing.   The variable pc is the position  *)
(* of main() in that loop.                                                 *)
(*                                                                         *)
(* Coordinates are binary floating point numbers of reduced precision: an  *)
(* integer n stands for n / SCALE pixels, 1 / SCALE pixel is the smallest  *)
(* magnitude, and the result of every arithmetic operation is rounded to   *)
(* the nearest number with the significand of a float (numbers below EXACT *)
(* are exact, the spacing doubles with every doubling above it).           *)
(* Trigonometry is tabulated for the headings the ship can take            *)
(* (multiples of ROTATION_SPEED degrees).                                  *)
(***************************************************************************)
EXTENDS Integers, Sequences, FiniteSets, TLC

(***************************************************************************)
(* Game configuration (src/app.py, lines 11-20).  Lengths are in pixels,   *)
(* but PLAYER_SPEED (0.25 pixel) is in units of 1 / SCALE pixel; the drag  *)
(* factor 0.99 is DRAG_NUM / DRAG_DEN.                                     *)
(***************************************************************************)
SCALE == 10000
EXACT == 1048576
WIDTH == 800
HEIGHT == 600
PLAYER_SPEED == 2500
ROTATION_SPEED == 5
BULLET_SPEED == 7
ASTEROID_MIN_SPEED == 1
ASTEROID_MAX_SPEED == 3
ASTEROID_SPAWN_COUNT == 5
ASTEROID_SIZE == 50
BULLET_LIFETIME == 60
SHIP_SIZE == 30
BULLET_SIZE == 5
OFFSET_DISTANCE == 15
DRAG_NUM == 99
DRAG_DEN == 100

(***************************************************************************)
(* Bounds of the explored behaviours                                       *)
(***************************************************************************)
MaxTicks == 3
MaxInputs == 3
LongTicks == 70
TurnTicks == 9
CoastTicks == 400

(***************************************************************************)
(* Arithmetic helpers                                                      *)
(***************************************************************************)
Abs(n) == IF n >= 0 THEN n ELSE -n

\* n / d rounded to the nearest integer, ties to the even one (the rounding
\* of floating-point results).
RDiv(n, d) ==
    LET q == n \div d
        r == n % d
    IN  IF 2 * r < d THEN q
        ELSE IF 2 * r > d THEN q + 1
        ELSE IF q % 2 = 0 THEN q ELSE q + 1

\* Spacing of the floats around n.
Ulp(n) ==
    LET m == Abs(n)
    IN  IF m < EXACT THEN 1
        ELSE IF m < 2 * EXACT THEN 2
        ELSE IF m < 4 * EXACT THEN 4
        ELSE IF m < 8 * EXACT THEN 8
        ELSE 16

\* The float nearest to the exact result n of an operation.
Fl(n) == RDiv(n, Ulp(n)) * Ulp(n)

\* int(v): truncation toward zero of a coordinate, in whole pixels.
IntPx(v) == IF v >= 0 THEN v \div SCALE ELSE -((-v) \div SCALE)

\* SCALE * cos(a) for a = 0, 5, ..., 90 degrees.
CosTab == <<10000, 9962, 9848, 9659, 9397, 9063, 8660, 8192, 7660, 7071,
            6428, 5736, 5000, 4226, 3420, 2588, 1736, 872, 0>>

\* SCALE * math.cos(math.radians(deg)), deg a multiple of 5.
Cos(deg) ==
    LET a == deg % 360
    IN  IF a <= 90 THEN CosTab[a \div 5 + 1]
        ELSE IF a <= 180 THEN -CosTab[(180 - a) \div 5 + 1]
        ELSE IF a <= 270 THEN -CosTab[(a - 180) \div 5 + 1]
        ELSE CosTab[(360 - a) \div 5 + 1]

\* SCALE * math.sin(math.radians(deg)).
Sin(deg) == Cos(deg - 90)

Vec(x, y) == <<x, y>>
VAdd(p, q) == <<Fl(p[1] + q[1]), Fl(p[2] + q[2])>>

(***************************************************************************)
(* wrap_position                                                           *)
(***************************************************************************)
\* x % m on floats, m > 0: the remainder of the division truncated toward
\* zero is exact; when it is negative, m is added to it, and that sum is
\* rounded.
FMod(x, m) == IF x >= 0 THEN x % m
              ELSE IF (-x) % m = 0 THEN 0
              ELSE Fl(m - ((-x) % m))

wrap_position(pos) == <<FMod(pos[1], WIDTH * SCALE), FMod(pos[2], HEIGHT * SCALE)>>

InField(pos) == /\ 0 <= pos[1] /\ pos[1] < WIDTH * SCALE
                /\ 0 <= pos[2] /\ pos[2] < HEIGHT * SCALE

(***************************************************************************)
(* Rectangles (pygame.Rect) and their overlap test                         *)
(***************************************************************************)
\* A w x h rect whose center is the pixel (int(pos.x), int(pos.y)).
RectAt(pos, w, h) == [x |-> IntPx(pos[1]) - w \div 2, y |-> IntPx(pos[2]) - h \div 2,
                      w |-> w, h |-> h]

\* The overlap test that forgets the widths of the rects.
colliderectNoWidth(a, b) == /\ a.x < b.x /\ b.x < a.x + a.w
                            /\ a.y < b.y + b.h /\ b.y < a.y + a.h

\* The overlap test on the x axis only.
colliderectXOnly(a, b) == a.x < b.x + b.w /\ b.x < a.x + a.w

colliderect(a, b) == /\ a.w > 0 /\ a.h > 0 /\ b.w > 0 /\ b.h > 0
                     /\ a.x < b.x + b.w /\ b.x < a.x + a.w
                     /\ a.y < b.y + b.h /\ b.y < a.y + a.h

\* Side of the bounding square of the 30 x 30 ship image rotated by angle
\* (pygame.transform.rotate): unchanged for multiples of 90 degrees,
\* int(30 * (|cos| + |sin|)) otherwise.
RotatedSize(angle) ==
    IF angle % 90 = 0 THEN SHIP_SIZE
    ELSE (SHIP_SIZE * (Abs(Cos(angle)) + Abs(Sin(angle)))) \div SCALE

PlayerRect(p) == RectAt(p.position, RotatedSize(p.angle), RotatedSize(p.angle))
BulletRect(b) == RectAt(b.position, BULLET_SIZE, BULLET_SIZE)
AsteroidRect(a) == RectAt(a.position, a.size, a.size)

(***************************************************************************)
(* Player                                                                  *)
(***************************************************************************)
NewPlayer(x, y) == [position |-> Vec(x * SCALE, y * SCALE),
                    velocity |-> Vec(0, 0),
                    angle |-> 0]

\* The velocity after the thrust step of Player.update.
Thrust(vel, angle) == Vec(vel[1] + RDiv(Cos(angle) * PLAYER_SPEED, SCALE),
                          vel[2] - RDiv(Sin(angle) * PLAYER_SPEED, SCALE))

\* velocity *= 0.99
Drag(vel) == Vec(RDiv(vel[1] * DRAG_NUM, DRAG_DEN), RDiv(vel[2] * DRAG_NUM, DRAG_DEN))

PlayerUpdate(p, keys) ==
    LET a1 == IF "LEFT" \in keys THEN p.angle + ROTATION_SPEED ELSE p.angle
        a2 == IF "RIGHT" \in keys THEN a1 - ROTATION_SPEED ELSE a1
        v1 == IF "UP" \in keys THEN Thrust(p.velocity, a2) ELSE p.velocity
    IN  [position |-> wrap_position(VAdd(p.position, v1)),
         velocity |-> Drag(v1),
         angle |-> a2]

\* Direction in which Player.shoot sends the bullet: bullet_angle = angle + 90.
BulletAngle(angle) == angle + 90

\* The bullet created from the ship as this tick's update leaves it.
shootAfterUpdate(p, id, now) ==
    LET q == [position |-> wrap_position(VAdd(p.position, p.velocity)),
              angle |-> p.angle + ROTATION_SPEED]
        ba == BulletAngle(q.angle)
    IN  [position |-> VAdd(q.position, Vec(Cos(ba) * OFFSET_DISTANCE,
                                           -(Sin(ba) * OFFSET_DISTANCE))),
         velocity |-> Vec(Cos(ba) * BULLET_SPEED, -(Sin(ba) * BULLET_SPEED)),
         lifetime |-> BULLET_LIFETIME,
         id |-> id,
         born |-> now,
         spawn |-> VAdd(q.position, Vec(Cos(ba) * OFFSET_DISTANCE,
                                        -(Sin(ba) * OFFSET_DISTANCE)))]

\* Player.shoot: the new Bullet (id, born and spawn are bookkeeping of the
\* model: creation number, tick of creation and position at creation).
shoot(p, id, now) ==
    LET ba == BulletAngle(p.angle)
    IN  [position |-> VAdd(p.position, Vec(Cos(ba) * OFFSET_DISTANCE,
                                           -(Sin(ba) * OFFSET_DISTANCE))),
         velocity |-> Vec(Cos(ba) * BULLET_SPEED, -(Sin(ba) * BULLET_SPEED)),
         lifetime |-> BULLET_LIFETIME,
         id |-> id,
         born |-> now,
         spawn |-> VAdd(p.position, Vec(Cos(ba) * OFFSET_DISTANCE,
                                        -(Sin(ba) * OFFSET_DISTANCE)))]

(***************************************************************************)
(* Bullet, Asteroid                                                        *)
(***************************************************************************)
\* The move without the wrap.
BulletMoveNoWrap(b) == VAdd(b.position, b.velocity)

BulletMove(b) == wrap_position(VAdd(b.position, b.velocity))

\* The update that forgets the countdown.
BulletUpdateNoDecay(b) == [b EXCEPT !.position = BulletMove(b)]

\* Bullet.update without the kill.
BulletUpdate(b) == [b EXCEPT !.position = BulletMove(b),
                             !.lifetime = b.lifetime - 1]

\* The kill one tick late.
ExpiredLate(b) == b.lifetime < 0

\* Bullet.update calls self.kill() when this holds after the decrement.
Expired(b) == b.lifetime <= 0

\* bullets_group.update(): every bullet is updated; the killed ones leave
\* the group.
BulletsUpdate(bs) ==
    SelectSeq([i \in 1..Len(bs) |-> BulletUpdate(bs[i])], LAMBDA b : ~Expired(b))

AsteroidUpdate(a) == [a EXCEPT !.position = wrap_position(VAdd(a.position, a.velocity))]

AsteroidsUpdate(as) == {AsteroidUpdate(a) : a \in as}

\* Asteroid(): position (x, y) in pixels, velocity (vx, vy) in 1 / SCALE
\* pixel per tick.
Spawn(id, x, y, vx, vy) == [id |-> id,
                            position |-> Vec(x * SCALE, y * SCALE),
                            velocity |-> Vec(vx, vy),
                            size |-> ASTEROID_SIZE]

(***************************************************************************)
(* Collision helpers (pygame.sprite)                                       *)
(***************************************************************************)
\* The collision test stopping at the first overlapping sprite.
spritecollideFirst(b, group) ==
    LET hits == {a \in group : colliderect(BulletRect(b), AsteroidRect(a))}
    IN  IF hits = {} THEN {}
        ELSE {CHOOSE a \in hits : \A o \in hits : a.id <= o.id}

\* pygame.sprite.spritecollide(bullet, group, True): the set of sprites of
\* the group whose rect overlaps the bullet's; all of them are killed.
spritecollide(b, group) == {a \in group : colliderect(BulletRect(b), AsteroidRect(a))}

\* The ship test comparing positions instead of rects.
spritecollideanySamePosition(p, group) == \E a \in group : a.position = p.position

\* pygame.sprite.spritecollideany(player, group) is not None
spritecollideany(p, group) == \E a \in group : colliderect(PlayerRect(p), AsteroidRect(a))

\* The for loop over bullets_group (iteration over a copy of the group, in
\* insertion order), from the i-th bullet on: kept are the bullets that
\* stay in the group, asts the asteroids still in their group.
\* The loop with spritecollide(bullet, asteroids_group, False).
RECURSIVE BulletLoopNoKill(_, _, _, _)
BulletLoopNoKill(i, bs, kept, asts) ==
    IF i > Len(bs) THEN [bullets |-> kept, asteroids |-> asts]
    ELSE BulletLoopNoKill(i + 1, bs,
                          IF spritecollide(bs[i], asts) # {} THEN kept
                          ELSE Append(kept, bs[i]),
                          asts)

\* The loop that spawns two smaller asteroids for every asteroid hit.
RECURSIVE BulletLoopSplit(_, _, _, _)
BulletLoopSplit(i, bs, kept, asts) ==
    IF i > Len(bs) THEN [bullets |-> kept, asteroids |-> asts]
    ELSE LET hit_asteroids == spritecollide(bs[i], asts)
             pieces == {[a EXCEPT !.id = a.id + k * ASTEROID_SPAWN_COUNT,
                                  !.size = a.size \div 2,
                                  !.position = Vec(0, 0)] :
                        a \in hit_asteroids, k \in {1, 2}}
         IN  BulletLoopSplit(i + 1, bs,
                             IF hit_asteroids # {} THEN kept ELSE Append(kept, bs[i]),
                             (asts \ hit_asteroids) \cup pieces)

RECURSIVE BulletLoop(_, _, _, _)
BulletLoop(i, bs, kept, asts) ==
    IF i > Len(bs) THEN [bullets |-> kept, asteroids |-> asts]
    ELSE LET hit_asteroids == spritecollide(bs[i], asts)
         IN  BulletLoop(i + 1, bs,
                        IF hit_asteroids # {} THEN kept ELSE Append(kept, bs[i]),
                        asts \ hit_asteroids)

BulletPass(bs, asts) == BulletLoop(1, bs, <<>>, asts)

(***************************************************************************)
(* State                                                                   *)
(***************************************************************************)
VARIABLES
    pc,               \* position of main() in the loop
    running,          \* the loop flag
    keys_pressed,     \* result of pygame.key.get_pressed() of this tick
    events,           \* events of pygame.event.get() not yet handled
    player,           \* the Player sprite
    bullets_group,    \* live bullets, in insertion order
    asteroids_group,  \* live asteroids
    nextId,           \* number of bullets created so far, plus one
    tick,             \* number of loop iterations started
    kbd,              \* the fire key: its physical state and press count
    budget,           \* input activity the environment may still produce
    last,             \* the state the latest step was taken from
    atTop             \* the state at the top of the loop in this tick

vars == <<pc, running, keys_pressed, events, player, bullets_group,
          asteroids_group, nextId, tick, kbd, budget, last, atTop>>

entities == <<player, bullets_group, asteroids_group>>

\* What the history variables record of a state.
Snap == [pc |-> pc, running |-> running, player |-> player,
         bullets |-> bullets_group, asteroids |-> asteroids_group,
         event |-> IF events # <<>> THEN Head(events) ELSE "none",
         nextId |-> nextId, tick |-> tick, presses |-> kbd.presses]

(***************************************************************************)
(* Initial state: main() up to `running = True`                            *)
(***************************************************************************)
\* Some of the positions and velocities the five calls of Asteroid() may
\* draw at random: an asteroid on the ship, two asteroids above it in the
\* line of fire, asteroids about to cross an edge of the field, and one
\* whose first step ends just beyond the left edge.
OnShip == Spawn(1, 400, 300, 0, 10000)
Above == Spawn(1, 400, 240, 0, 20000)
AboveToo == Spawn(2, 410, 240, 0, 20000)
Aside == Spawn(1, 452, 100, -30000, 0)
Away == Spawn(2, 200, 100, -10000, 0)
Corner == Spawn(3, 5, 5, -20000, -20000)
RightEdge == Spawn(4, 795, 10, 30000, 0)
LeftEdge == Spawn(4, 2, 10, -20001, 0)
BottomEdge == Spawn(5, 100, 595, 0, 30000)

QuietLayout == <<Aside, Away, Corner, RightEdge, BottomEdge>>

Layouts == {<<OnShip, Away, Corner, RightEdge, BottomEdge>>,
            <<Above, AboveToo, Corner, RightEdge, BottomEdge>>,
            <<Aside, Away, Corner, LeftEdge, BottomEdge>>,
            QuietLayout}

\* Asteroid.__init__: integer position inside the field, speed within
\* [ASTEROID_MIN_SPEED, ASTEROID_MAX_SPEED].
ValidSpawn(a) ==
    LET s2 == a.velocity[1] * a.velocity[1] + a.velocity[2] * a.velocity[2]
    IN  /\ InField(a.position)
        /\ a.position[1] % SCALE = 0 /\ a.position[2] % SCALE = 0
        /\ (ASTEROID_MIN_SPEED * SCALE) * (ASTEROID_MIN_SPEED * SCALE) <= s2
        /\ s2 <= (ASTEROID_MAX_SPEED * SCALE) * (ASTEROID_MAX_SPEED * SCALE)
        /\ a.size = ASTEROID_SIZE

AsteroidIds == 1..ASTEROID_SPAWN_COUNT

\* The asteroids_group main() builds from a layout.
SpawnAll(f) == {f[i] : i \in AsteroidIds}

InitProgram ==
    /\ pc = "loop"
    /\ running = TRUE
    /\ keys_pressed = {}
    /\ events = <<>>
    /\ player = NewPlayer(WIDTH \div 2, HEIGHT \div 2)
    /\ bullets_group = <<>>
    /\ nextId = 1
    /\ tick = 0
    /\ kbd = [spaceDown |-> FALSE, presses |-> 0, heldTicks |-> 0]

InitHistory ==
    /\ last = [Snap EXCEPT !.pc = "start"]
    /\ atTop = [Snap EXCEPT !.pc = "start"]

Init ==
    /\ InitProgram
    /\ \E f \in Layouts : /\ \A i \in AsteroidIds : f[i].id = i /\ ValidSpawn(f[i])
                          /\ asteroids_group = SpawnAll(f)
    /\ InitHistory
    /\ budget = MaxInputs

\* A long quiet run: the asteroids start away from the ship.
InitLong ==
    /\ InitProgram
    /\ asteroids_group = SpawnAll(QuietLayout)
    /\ InitHistory
    /\ budget = 1

(***************************************************************************)
(* Input: pygame.key.get_pressed() and pygame.event.get()                  *)
(***************************************************************************)
HeldKeys == {"LEFT", "RIGHT", "UP", "ESCAPE"}

\* Events the fire key can produce next: a key that is up can only go
\* down and back (no key repeat is configured).
AllowedEvents(down) == {"QUIT", "OTHER"} \cup (IF down THEN {"KEYUP_SPACE"} ELSE {"KEYDOWN_SPACE"})

SpaceAfterEvent(down, e) == IF e = "KEYDOWN_SPACE" THEN TRUE
                            ELSE IF e = "KEYUP_SPACE" THEN FALSE ELSE down

RECURSIVE SpaceAfter(_, _)
SpaceAfter(down, evs) == IF evs = <<>> THEN down
                         ELSE SpaceAfter(SpaceAfterEvent(down, Head(evs)), Tail(evs))

\* Event queues of at most n events the environment can deliver.
RECURSIVE EventSeqs(_, _)
EventSeqs(n, down) ==
    IF n = 0 THEN {<<>>}
    ELSE {<<>>} \cup UNION {{<<e>> \o s : s \in EventSeqs(n - 1, SpaceAfterEvent(down, e))} :
                            e \in AllowedEvents(down)}

RECURSIVE Count(_, _)
Count(evs, e) == IF evs = <<>> THEN 0
                 ELSE (IF Head(evs) = e THEN 1 ELSE 0) + Count(Tail(evs), e)

\* The state main() is in after `keys_pressed = pygame.key.get_pressed()`
\* and the call of pygame.event.get(), for the given input.
TakeInput(keys, evs) ==
    /\ keys_pressed' = keys \cup (IF kbd.spaceDown THEN {"SPACE"} ELSE {})
    /\ events' = evs
    /\ kbd' = [spaceDown |-> SpaceAfter(kbd.spaceDown, evs),
               presses |-> kbd.presses + Count(evs, "KEYDOWN_SPACE"),
               heldTicks |-> IF kbd.spaceDown /\ Count(evs, "KEYUP_SPACE") = 0
                             THEN kbd.heldTicks + 1 ELSE 0]
    /\ tick' = tick + 1
    /\ pc' = IF evs = <<>> THEN "update" ELSE "events"
    /\ last' = Snap
    /\ atTop' = Snap
    /\ UNCHANGED <<running, player, bullets_group, asteroids_group, nextId>>

\* The top of a loop that does not test its flag (`while True`).
SampleWhileTrue ==
    /\ pc = "loop" /\ tick < MaxTicks
    /\ \E keys \in SUBSET HeldKeys :
          LET cost == IF keys # keys_pressed \ {"SPACE"} THEN 1 ELSE 0
          IN  /\ cost <= budget
              /\ \E evs \in EventSeqs(budget - cost, kbd.spaceDown) :
                    /\ budget' = budget - cost - Len(evs)
                    /\ TakeInput(keys, evs)

\* Top of the loop, any input within the budget: an event costs one, and
\* so does a tick whose held keys differ from those of the tick before.
Sample ==
    /\ pc = "loop" /\ running /\ tick < MaxTicks
    /\ \E keys \in SUBSET HeldKeys :
          LET cost == IF keys # keys_pressed \ {"SPACE"} THEN 1 ELSE 0
          IN  /\ cost <= budget
              /\ \E evs \in EventSeqs(budget - cost, kbd.spaceDown) :
                    /\ budget' = budget - cost - Len(evs)
                    /\ TakeInput(keys, evs)

\* Top of the loop in a long run: the player changes the held keys at the
\* start and after TurnTicks ticks only, presses fire at most once and
\* keeps it down, and may close the window in the first tick.
SampleLong ==
    /\ pc = "loop" /\ running /\ tick < LongTicks
    /\ \E keys \in SUBSET {"LEFT", "UP"} :
       \E evs \in {<<>>} \cup (IF budget > 0 THEN {<<"KEYDOWN_SPACE">>} ELSE {})
                         \cup (IF tick = 0 THEN {<<"QUIT">>} ELSE {}) :
          /\ (keys # keys_pressed \ {"SPACE"}) => tick \in {0, TurnTicks}
          /\ budget' = IF evs = <<"KEYDOWN_SPACE">> THEN 0 ELSE budget
          /\ TakeInput(keys, evs)

\* Top of the loop in a run in which the ship coasts: the player gives one
\* tick of thrust (and possibly of rotation) at the start, may close the
\* window at once, and then leaves the keyboard alone.
SampleCoast ==
    /\ pc = "loop" /\ running /\ tick < CoastTicks
    /\ \E keys \in (IF tick = 0 THEN {{"UP"}, {"UP", "LEFT"}} ELSE {{}}) :
       \E evs \in (IF tick = 0 THEN {<<>>, <<"QUIT">>} ELSE {<<>>}) :
          /\ budget' = budget
          /\ TakeInput(keys, evs)

(***************************************************************************)
(* The loop body                                                           *)
(***************************************************************************)
\* The test with the escape key left out.
TerminationIntentQuitOnly(e, keys) == e = "QUIT"

\* `event.type == pygame.QUIT or keys_pressed[pygame.K_ESCAPE]`
TerminationIntent(e, keys) == e = "QUIT" \/ "ESCAPE" \in keys

\* Fire on the first key-down event of a tick only.
FireIntentOncePerTick(e, keys) == e = "KEYDOWN_SPACE" /\ nextId = atTop.nextId

\* Fire on the polled state of the key instead of its key-down event.
FireIntentHeld(e, keys) == "SPACE" \in keys

\* `event.type == pygame.KEYDOWN and event.key == pygame.K_SPACE`
FireIntent(e, keys) == e = "KEYDOWN_SPACE"

\* One iteration of `for event in pygame.event.get()`.
HandleEvent ==
    /\ pc = "events"
    /\ LET e == Head(events)
       IN  /\ running' = IF TerminationIntent(e, keys_pressed) THEN FALSE ELSE running
           /\ IF FireIntent(e, keys_pressed)
              THEN /\ bullets_group' = Append(bullets_group, shoot(player, nextId, tick))
                   /\ nextId' = nextId + 1
              ELSE UNCHANGED <<bullets_group, nextId>>
    /\ events' = Tail(events)
    /\ pc' = IF Tail(events) = <<>> THEN "update" ELSE "events"
    /\ last' = Snap
    /\ UNCHANGED <<keys_pressed, player, asteroids_group, tick, kbd, budget, atTop>>

\* player_group.update(keys_pressed); bullets_group.update();
\* asteroids_group.update()
UpdateSprites ==
    /\ pc = "update"
    /\ player' = PlayerUpdate(player, keys_pressed)
    /\ bullets_group' = BulletsUpdate(bullets_group)
    /\ asteroids_group' = AsteroidsUpdate(asteroids_group)
    /\ pc' = "bullets_vs_asteroids"
    /\ last' = Snap
    /\ UNCHANGED <<running, keys_pressed, events, nextId, tick, kbd, budget, atTop>>

\* The pass that also tests the ship, against the asteroids as they are
\* before any bullet is tested.
BulletsVsAsteroidsShipFirst ==
    /\ pc = "bullets_vs_asteroids"
    /\ LET r == BulletPass(bullets_group, asteroids_group)
       IN  /\ bullets_group' = r.bullets
           /\ asteroids_group' = r.asteroids
    /\ running' = IF spritecollideany(player, asteroids_group) THEN FALSE ELSE running
    /\ pc' = "ship_vs_asteroids"
    /\ last' = Snap
    /\ UNCHANGED <<keys_pressed, events, player, nextId, tick, kbd, budget, atTop>>

\* Check collisions: bullet vs asteroid
BulletsVsAsteroids ==
    /\ pc = "bullets_vs_asteroids"
    /\ LET r == BulletPass(bullets_group, asteroids_group)
       IN  /\ bullets_group' = r.bullets
           /\ asteroids_group' = r.asteroids
    /\ pc' = "ship_vs_asteroids"
    /\ last' = Snap
    /\ UNCHANGED <<running, keys_pressed, events, player, nextId, tick, kbd, budget, atTop>>

\* Check collisions: ship vs asteroid
ShipVsAsteroids ==
    /\ pc = "ship_vs_asteroids"
    /\ running' = IF spritecollideany(player, asteroids_group) THEN FALSE ELSE running
    /\ pc' = "draw"
    /\ last' = Snap
    /\ UNCHANGED <<keys_pressed, events, player, bullets_group, asteroids_group,
                   nextId, tick, kbd, budget, atTop>>

\* Draw everything; pygame.display.flip()
Draw ==
    /\ pc = "draw"
    /\ pc' = "loop"
    /\ last' = Snap
    /\ UNCHANGED <<running, keys_pressed, events, player, bullets_group,
                   asteroids_group, nextId, tick, kbd, budget, atTop>>

\* `while running` is false: pygame.quit(); sys.exit()
Exit ==
    /\ pc = "loop" /\ ~running
    /\ pc' = "done"
    /\ last' = Snap
    /\ UNCHANGED <<running, keys_pressed, events, player, bullets_group,
                   asteroids_group, nextId, tick, kbd, budget, atTop>>

Body == HandleEvent \/ UpdateSprites \/ BulletsVsAsteroids \/ ShipVsAsteroids
        \/ Draw \/ Exit

Next == Sample \/ Body

NextLong == SampleLong \/ Body

NextCoast == SampleCoast \/ Body

Spec == Init /\ [][Next]_vars

SpecLong == InitLong /\ [][NextLong]_vars

SpecCoast == InitLong /\ [][NextCoast]_vars

TypeOK ==
    /\ pc \in {"loop", "events", "update", "bullets_vs_asteroids",
               "ship_vs_asteroids", "draw", "done"}
    /\ running \in BOOLEAN
    /\ keys_pressed \subseteq HeldKeys \cup {"SPACE"}
    /\ tick \in Nat /\ nextId \in Nat

(***************************************************************************)
(* Vocabulary of the properties                                            *)
(***************************************************************************)
Max(a, b) == IF a >= b THEN a ELSE b
Min(a, b) == IF a <= b THEN a ELSE b

\* Two bounding rects have a pixel in common.
RectsOverlap(a, b) == /\ Max(a.x, b.x) < Min(a.x + a.w, b.x + b.w)
                      /\ Max(a.y, b.y) < Min(a.y + a.h, b.y + b.h)

SeqToSet(s) == {s[i] : i \in 1..Len(s)}
BulletIds(s) == {s[i].id : i \in 1..Len(s)}
Ids(S) == {a.id : a \in S}

\* The points of a tick at which collisions are tested and the frame drawn.
AfterUpdate == pc \in {"bullets_vs_asteroids", "ship_vs_asteroids", "draw"}

\* The asteroids of group S whose rect overlaps that of bullet b.
Hits(b, S) == {a \in S : RectsOverlap(BulletRect(b), AsteroidRect(a))}

\* The latest step was the bullet-vs-asteroid pass.
PassDone == last.pc = "bullets_vs_asteroids"

C1_Witness ==
    /\ pc = "bullets_vs_asteroids"
    /\ \E b \in SeqToSet(bullets_group) :
          b.born = tick /\ ~InField(b.spawn) /\ InField(b.position)

(***************************************************************************)
(* C2 as claimed: in the bullet-vs-asteroid pass a bullet that overlaps    *)
(* several live asteroids removes exactly one of them, the others stay.    *)
(***************************************************************************)
C2_AtMostOneHit ==
    PassDone =>
        \A b \in SeqToSet(last.bullets) :
            LET hits == Hits(b, last.asteroids)
            IN  Cardinality(hits) > 1 =>
                   Cardinality(Ids(hits) \ Ids(asteroids_group)) = 1

(***************************************************************************)
(* C2 amended: a bullet that overlaps several live asteroids at once       *)
(* removes all of them in the pass, and leaves the group itself when it is *)
(* the first bullet of the group touching any of them.                     *)
(***************************************************************************)
C2_AllHitsRemoved ==
    PassDone =>
        \A i \in 1..Len(last.bullets) :
            LET hits == Hits(last.bullets[i], last.asteroids)
            IN  Cardinality(hits) > 1 =>
                   /\ Ids(hits) \cap Ids(asteroids_group) = {}
                   /\ (\A j \in 1..(i - 1) :
                          Hits(last.bullets[j], last.asteroids) \cap hits = {})
                       => last.bullets[i].id \notin BulletIds(bullets_group)

\* A pass has removed two asteroids that one bullet overlapped.
C2_Witness ==
    /\ PassDone
    /\ \E b \in SeqToSet(last.bullets) :
          /\ Cardinality(Hits(b, last.asteroids)) > 1
          /\ Ids(Hits(b, last.asteroids)) \cap Ids(asteroids_group) = {}
          /\ b.id \notin BulletIds(bullets_group)

(***************************************************************************)
(* C3 as claimed: once a termination intent (quit event or escape) has     *)
(* been observed nothing is processed any more in that tick: the ship, the *)
(* bullets and the asteroids stay as they were when it was observed.       *)
(***************************************************************************)
C3_NoFurtherProcessing ==
    ~last.running =>
        /\ player = last.player
        /\ bullets_group = last.bullets
        /\ asteroids_group = last.asteroids

(***************************************************************************)
(* C3 amended: an observed termination intent (a quit event, or escape     *)
(* held while an event is handled) clears the loop flag for good, the tick *)
(* is still completed (a later fire key-down of the queue creates its      *)
(* bullet and the sprite update moves every asteroid), and the loop exits  *)
(* at its next test without starting another tick or touching an entity.   *)
(***************************************************************************)
C3_FinishesTickThenExits ==
    /\ (last.pc = "events" /\ (last.event = "QUIT" \/ "ESCAPE" \in keys_pressed))
          => ~running
    /\ ~last.running => ~running
    /\ (~last.running /\ last.pc = "events" /\ last.event = "KEYDOWN_SPACE")
          => Len(bullets_group) = Len(last.bullets) + 1
    /\ (~last.running /\ last.pc = "update")
          => /\ pc = "bullets_vs_asteroids"
             /\ \A a \in last.asteroids : \A b \in asteroids_group :
                   a.id = b.id => a.position # b.position
    /\ (~last.running /\ last.pc = "loop")
          => /\ pc = "done"
             /\ tick = last.tick
             /\ player = last.player
             /\ bullets_group = last.bullets
             /\ asteroids_group = last.asteroids

\* The sprite update has moved the ship in a tick whose events carried a
\* termination intent.
C3_Witness ==
    /\ pc = "bullets_vs_asteroids"
    /\ ~running
    /\ last.pc = "update"
    /\ player.position # last.player.position

\* The tick of its life a bullet is in, the tick of its creation being 1.
Age(b) == tick - b.born + 1

\* The bullets of the previous state that have left the group.
Gone == {b \in SeqToSet(last.bullets) : b.id \notin BulletIds(bullets_group)}

(***************************************************************************)
(* C4 as claimed: a bullet is in the live group for exactly                *)
(* BULLET_LIFETIME ticks, counting the tick of its creation, whatever the  *)
(* collisions: it never leaves the group in another tick of its life.      *)
(***************************************************************************)
C4_ExactlyLifetimeTicks ==
    /\ \A b \in SeqToSet(bullets_group) : Age(b) <= BULLET_LIFETIME
    /\ \A b \in Gone : Age(b) = BULLET_LIFETIME

(***************************************************************************)
(* C4 amended: a bullet is in the live group during at most                *)
(* BULLET_LIFETIME ticks, counting the tick of its creation.  The sprite   *)
(* update of its BULLET_LIFETIME-th tick removes it, so that it is tested  *)
(* and drawn in BULLET_LIFETIME - 1 ticks; before that it leaves the group *)
(* only in a bullet-vs-asteroid pass in which it overlaps a live asteroid. *)
(***************************************************************************)
C4_AtMostLifetimeTicks ==
    /\ \A b \in SeqToSet(bullets_group) :
          /\ 1 <= Age(b) /\ Age(b) <= BULLET_LIFETIME
          /\ pc \notin {"events", "update"} => Age(b) < BULLET_LIFETIME
    /\ \A b \in Gone :
          \/ last.pc = "update" /\ Age(b) = BULLET_LIFETIME
          \/ /\ last.pc = "bullets_vs_asteroids"
             /\ Age(b) < BULLET_LIFETIME
             /\ Hits(b, last.asteroids) # {}

\* A bullet that met no asteroid leaves the group in the update of its
\* BULLET_LIFETIME-th tick.
C4_Witness ==
    /\ last.pc = "update"
    /\ \E b \in Gone : Age(b) = BULLET_LIFETIME /\ b.lifetime = 1

(***************************************************************************)
(* C10: the lifetime of a live bullet goes down by exactly 1 in each tick  *)
(* (in the sprite update, and nowhere else), and no bullet with            *)
(* lifetime <= 0 is in the live group when collisions are tested or the    *)
(* frame is drawn.                                                         *)
(***************************************************************************)
C10_LifetimeCountdown ==
    /\ pc \notin {"events", "update"} =>
          \A b \in SeqToSet(bullets_group) : b.lifetime > 0
    /\ \A b \in SeqToSet(bullets_group) :
          b.lifetime = BULLET_LIFETIME - (tick - b.born)
                       - (IF pc \in {"events", "update"} THEN 0 ELSE 1)
    /\ \A b \in SeqToSet(bullets_group) : \A o \in SeqToSet(last.bullets) :
          b.id = o.id =>
             b.lifetime = IF last.pc = "update" THEN o.lifetime - 1 ELSE o.lifetime
    /\ last.pc = "update" =>
          \A o \in SeqToSet(last.bullets) :
             o.lifetime <= 1 => o.id \notin BulletIds(bullets_group)

\* The update has counted a bullet down to 0 and dropped it before the
\* collision tests.
C10_Witness ==
    /\ pc = "bullets_vs_asteroids"
    /\ \E o \in SeqToSet(last.bullets) :
          o.lifetime = 1 /\ o.id \notin BulletIds(bullets_group)

\* At the top of the current tick the ship and a live asteroid of nonzero
\* size were at exactly the same position.
ShipOnAsteroidAtTop ==
    \E a \in atTop.asteroids : a.size > 0 /\ a.position = atTop.player.position

(***************************************************************************)
(* C5 as claimed: a tick that starts with the ship and a live asteroid of  *)
(* nonzero size at the same position ends in GameOver, whatever the        *)
(* rotate, thrust and fire input of that tick.                             *)
(***************************************************************************)
C5_GameOverWithinOneTick ==
    (pc = "draw" /\ ShipOnAsteroidAtTop) => ~running

(***************************************************************************)
(* C5 amended: a tick that starts with the ship and a live asteroid of     *)
(* nonzero size at the same position ends in GameOver for every rotate and *)
(* thrust input, provided no bullet is live or fired in that tick (a       *)
(* bullet may destroy the asteroid in the pass before the ship test).      *)
(***************************************************************************)
C5_GameOverUnlessBullet ==
    (/\ pc = "draw"
     /\ ShipOnAsteroidAtTop
     /\ atTop.bullets = <<>>
     /\ nextId = atTop.nextId) => ~running

\* Such a tick, with rotation and thrust, has ended the run.
C5_Witness ==
    /\ pc = "draw"
    /\ ShipOnAsteroidAtTop
    /\ atTop.bullets = <<>> /\ nextId = atTop.nextId
    /\ {"LEFT", "UP"} \subseteq keys_pressed
    /\ ~running

(***************************************************************************)
(* C6: fire is edge-triggered.  Every press of the fire key creates        *)
(* exactly one bullet, and a tick through which the key is merely held     *)
(* creates none: holding it for N ticks gives 1 bullet, not N.             *)
(***************************************************************************)
C6_FireEdgeTriggered ==
    /\ (nextId - 1) + Count(events, "KEYDOWN_SPACE") = kbd.presses
    /\ kbd.heldTicks > 0 => nextId = atTop.nextId

\* The key has been held through two further ticks after its only press.
C6_Witness ==
    /\ pc = "draw"
    /\ kbd.heldTicks >= 2
    /\ kbd.presses = 1
    /\ nextId = 2

ShipOverlaps(p, S) == \E a \in S : RectsOverlap(PlayerRect(p), AsteroidRect(a))

(***************************************************************************)
(* C7: if the rect of the ship overlaps the rect of an asteroid that is    *)
(* live when the ship-vs-asteroid test runs, the run is over in that tick, *)
(* and the test leaves the asteroid group as it was.                       *)
(***************************************************************************)
C7_ShipHitEndsRun ==
    /\ last.pc = "ship_vs_asteroids" =>
          /\ ShipOverlaps(last.player, last.asteroids) => ~running
          /\ asteroids_group = last.asteroids
    /\ (pc = "draw" /\ ShipOverlaps(player, asteroids_group)) => ~running

\* The test has ended a run and the asteroid that was hit is still live.
C7_Witness ==
    /\ last.pc = "ship_vs_asteroids"
    /\ last.running /\ ~running
    /\ ShipOverlaps(player, asteroids_group)

(***************************************************************************)
(* C8 as claimed: a bullet and an asteroid whose rects overlap when the    *)
(* pass starts are both gone after the pass.                               *)
(***************************************************************************)
C8_BothRemoved ==
    PassDone =>
        \A b \in SeqToSet(last.bullets) : \A a \in Hits(b, last.asteroids) :
            /\ a.id \notin Ids(asteroids_group)
            /\ b.id \notin BulletIds(bullets_group)

\* The asteroids overlapped by the bullets tested before the i-th.
HitsBefore(i) == UNION {Hits(last.bullets[j], last.asteroids) : j \in 1..(i - 1)}

(***************************************************************************)
(* C8 amended: every asteroid that overlapped a live bullet when the pass  *)
(* started is gone after the pass; the bullet is gone too, unless all the  *)
(* asteroids it overlapped were overlapped by bullets tested before it     *)
(* (two bullets on one asteroid: the second bullet stays).                 *)
(***************************************************************************)
C8_AsteroidRemovedBulletIfFirst ==
    PassDone =>
        \A i \in 1..Len(last.bullets) :
            LET hits == Hits(last.bullets[i], last.asteroids)
            IN  /\ Ids(hits) \cap Ids(asteroids_group) = {}
                /\ (last.bullets[i].id \notin BulletIds(bullets_group))
                      <=> ~(hits \subseteq HitsBefore(i))

\* A pass has removed a bullet and the asteroid it overlapped.
C8_Witness ==
    /\ PassDone
    /\ \E b \in SeqToSet(last.bullets) : \E a \in Hits(b, last.asteroids) :
          /\ a.id \notin Ids(asteroids_group)
          /\ b.id \notin BulletIds(bullets_group)

(***************************************************************************)
(* C9: no false positives.  An asteroid leaves its group only in a pass    *)
(* in which its rect overlaps the rect of a live bullet; a bullet leaves   *)
(* its group only by expiry in the update or in a pass in which it         *)
(* overlaps a live asteroid; and the ship test ends the run only if the    *)
(* rect of the ship overlaps the rect of a live asteroid.                  *)
(***************************************************************************)
C9_NoFalsePositives ==
    /\ \A a \in last.asteroids : a.id \notin Ids(asteroids_group) =>
          /\ PassDone
          /\ \E b \in SeqToSet(last.bullets) :
                RectsOverlap(BulletRect(b), AsteroidRect(a))
    /\ \A b \in Gone :
          \/ last.pc = "update" /\ b.lifetime <= 1
          \/ PassDone /\ Hits(b, last.asteroids) # {}
    /\ (last.pc = "ship_vs_asteroids" /\ last.running /\ ~running)
          => ShipOverlaps(last.player, last.asteroids)
    /\ (last.running /\ ~running) => last.pc \in {"events", "ship_vs_asteroids"}

\* Both collision tests have run on a live bullet, live asteroids and the
\* ship, none of them overlapping, and have removed nothing.
C9_Witness ==
    /\ pc = "draw" /\ running
    /\ tick >= 2
    /\ Len(bullets_group) > 0
    /\ Cardinality(asteroids_group) = ASTEROID_SPAWN_COUNT
    /\ BulletIds(bullets_group) = BulletIds(atTop.bullets)

(***************************************************************************)
(* C11: GameOver is terminal.  Once the ship-vs-asteroid test has reported *)
(* an overlap the loop flag is cleared and stays cleared, no new tick is   *)
(* started, and the ship, the bullets and the asteroids (position,         *)
(* velocity, heading, lifetime, membership) stay exactly as the test left  *)
(* them: the frame is drawn and main() leaves the loop.                    *)
(***************************************************************************)
C11_GameOverTerminal ==
    /\ (last.pc = "ship_vs_asteroids" /\ ShipOverlaps(last.player, last.asteroids))
          => /\ ~running /\ pc = "draw"
             /\ player = last.player
             /\ bullets_group = last.bullets
             /\ asteroids_group = last.asteroids
    /\ (~last.running /\ last.pc \in {"draw", "loop"})
          => /\ ~running
             /\ pc = (IF last.pc = "draw" THEN "loop" ELSE "done")
             /\ tick = last.tick
             /\ player = last.player
             /\ bullets_group = last.bullets
             /\ asteroids_group = last.asteroids
    /\ pc = "done" => ~running

\* main() has left the loop after a ship hit, the asteroid that was hit
\* still live and overlapping the ship.
C11_Witness ==
    /\ pc = "done"
    /\ last.pc = "loop"
    /\ ~running
    /\ ShipOverlaps(player, asteroids_group)
    /\ "ESCAPE" \notin keys_pressed

\* Two vectors point in the same direction.
SameDirection(u, v) == /\ u[1] * v[2] - u[2] * v[1] = 0
                       /\ u[1] * v[1] + u[2] * v[2] > 0

(***************************************************************************)
(* C12: one heading convention, heading 0 = up.  When the ship, at rest    *)
(* and at a heading that is a multiple of 90 degrees, thrusts, the         *)
(* velocity it gains points in the direction in which a bullet fired at    *)
(* that heading travels; at heading 0 that direction is up (x component 0, *)
(* y component negative).                                                  *)
(***************************************************************************)
C12_OneHeadingConvention ==
    (/\ last.pc = "update"
     /\ "UP" \in keys_pressed
     /\ last.player.velocity = Vec(0, 0)
     /\ player.angle % 90 = 0)
    => /\ SameDirection(player.velocity, shoot(player, nextId, tick).velocity)
       /\ player.angle % 360 = 0 =>
              /\ player.velocity[1] = 0
              /\ player.velocity[2] < 0

\* The positions the sprite update of the latest step has handed to
\* wrap_position: position + velocity of the ship (after thrust), of every
\* bullet and of every asteroid.
WrapInputs ==
    {VAdd(last.player.position,
          IF "UP" \in keys_pressed THEN Thrust(last.player.velocity, player.angle)
          ELSE last.player.velocity)}
    \cup {VAdd(b.position, b.velocity) : b \in SeqToSet(last.bullets)}
    \cup {VAdd(a.position, a.velocity) : a \in last.asteroids}

(***************************************************************************)
(* C13: wrap idempotence.  For every position p handed to wrap_position    *)
(* (negative coordinates and coordinates at or beyond the field size       *)
(* included), wrap_position(wrap_position(p)) = wrap_position(p), and the  *)
(* result satisfies 0 <= x < WIDTH and 0 <= y < HEIGHT.                    *)
(***************************************************************************)
C13_WrapIdempotent ==
    last.pc = "update" =>
        \A p \in WrapInputs :
            /\ wrap_position(wrap_position(p)) = wrap_position(p)
            /\ InField(wrap_position(p))

\* r is the non-negative modulo of n by m, up to the rounding of one
\* floating-point operation.
IsModulo(r, n, m) == /\ 0 <= r /\ r < m
                     /\ Abs(r - (n % m)) <= Ulp(n % m)

\* to is where an entity at from with velocity vel has to be one tick later.
MovedModulo(from, vel, to) ==
    /\ IsModulo(to[1], Fl(from[1] + vel[1]), WIDTH * SCALE)
    /\ IsModulo(to[2], Fl(from[2] + vel[2]), HEIGHT * SCALE)

(***************************************************************************)
(* C14: wrapping is an exact non-negative modulo, never a clamp.  After    *)
(* the sprite update of a tick every bullet and asteroid that was at       *)
(* (x, y) with velocity (vx, vy) is at ((x + vx) mod WIDTH,                *)
(* (y + vy) mod HEIGHT): a coordinate that passes WIDTH re-enters at its   *)
(* excess over WIDTH, and one that goes negative re-enters from the        *)
(* opposite edge, inside the field.                                        *)
(***************************************************************************)
C14_ExactModulo ==
    last.pc = "update" =>
        /\ \A a \in last.asteroids : \A n \in asteroids_group :
               n.id = a.id => MovedModulo(a.position, a.velocity, n.position)
        /\ \A b \in SeqToSet(last.bullets) : \A n \in SeqToSet(bullets_group) :
               n.id = b.id => MovedModulo(b.position, b.velocity, n.position)

\* Square of the length of a vector.
Norm2(v) == v[1] * v[1] + v[2] * v[2]

(***************************************************************************)
(* C15: drag monotonicity.  Drag is applied to the velocity of the ship in *)
(* every tick, with or without input; in every tick without thrust the     *)
(* speed of the ship, when it is not zero, strictly decreases              *)
(* (|v_{t+1}| < |v_t|) and does not become zero.                           *)
(***************************************************************************)
C15_DragMonotone ==
    last.pc = "update" =>
        /\ ("UP" \in keys_pressed /\ player.angle = 0) =>
               player.velocity[1] < last.player.velocity[1] + PLAYER_SPEED
        /\ ("UP" \notin keys_pressed /\ last.player.velocity # Vec(0, 0)) =>
               /\ Norm2(player.velocity) < Norm2(last.player.velocity)
               /\ player.velocity # Vec(0, 0)

(***************************************************************************)
(* C16: the termination check is made once per tick whatever the other     *)
(* input.  A tick in which escape is sampled as held, or in which a quit   *)
(* event is queued, has cleared the loop flag when its frame is drawn,     *)
(* also when no other event is in the queue of that tick.                  *)
(***************************************************************************)
C16_TerminationEveryTick ==
    /\ (pc = "draw" /\ "ESCAPE" \in keys_pressed) => ~running
    /\ (last.pc = "events" /\ last.event = "QUIT") => ~running

\* Bullets created, and fire key-down events delivered, in the current tick.
CreatedInTick == nextId - atTop.nextId
KeyDownsInTick == kbd.presses - atTop.presses

(***************************************************************************)
(* C17 as claimed: in every tick zero or one bullet is created, whatever   *)
(* the sequence of fire key-down events delivered in that tick.            *)
(***************************************************************************)
C17_AtMostOnePerTick == CreatedInTick <= 1

(***************************************************************************)
(* C17 amended: the number of bullets created in a tick is the number of   *)
(* fire key-down events delivered in that tick, each of them adding one    *)
(* bullet to the live group before the sprite update: zero or one when at  *)
(* most one key-down is delivered, two for the sequence key-down, key-up,  *)
(* key-down.                                                               *)
(***************************************************************************)
C17_OnePerKeyDown ==
    /\ CreatedInTick + Count(events, "KEYDOWN_SPACE") = KeyDownsInTick
    /\ pc \in {"events", "update"} =>
          Len(bullets_group) = Len(atTop.bullets) + CreatedInTick
    /\ (last.pc = "events" /\ last.event = "KEYDOWN_SPACE") =>
          /\ nextId = last.nextId + 1
          /\ Len(bullets_group) = Len(last.bullets) + 1

\* Two key-down events of one tick have created two bullets.
C17_Witness ==
    /\ pc = "update"
    /\ KeyDownsInTick = 2
    /\ CreatedInTick = 2
    /\ Len(bullets_group) = Len(atTop.bullets) + 2

(***************************************************************************)
(* C18: asteroids are never regenerated.  The live asteroids are always    *)
(* among the ASTEROID_SPAWN_COUNT asteroids of the initial spawn, no step  *)
(* of the loop adds a member to the group (so that their number never      *)
(* increases over any sequence of ticks), and an asteroid that has left    *)
(* the group is never a member again.                                      *)
(***************************************************************************)
C18_NoRegeneration ==
    /\ Ids(asteroids_group) \subseteq AsteroidIds
    /\ Cardinality(asteroids_group) = Cardinality(Ids(asteroids_group))
    /\ Cardinality(asteroids_group) <= ASTEROID_SPAWN_COUNT
    /\ Ids(asteroids_group) \subseteq Ids(last.asteroids)
    /\ Ids(last.asteroids) \subseteq Ids(atTop.asteroids)
    /\ Cardinality(asteroids_group) <= Cardinality(atTop.asteroids)

\* An asteroid destroyed in an earlier tick is still missing a tick later.
C18_Witness ==
    /\ pc = "draw"
    /\ tick >= 2
    /\ Cardinality(atTop.asteroids) < ASTEROID_SPAWN_COUNT
    /\ Ids(asteroids_group) = Ids(atTop.asteroids)

\* The asteroids of S whose rect overlaps both the rect of ship p and the
\* rect of a bullet of bs.
OnShipAndBullet(p, bs, S) ==
    {a \in S : /\ RectsOverlap(PlayerRect(p), AsteroidRect(a))
               /\ \E b \in SeqToSet(bs) : RectsOverlap(BulletRect(b), AsteroidRect(a))}

(***************************************************************************)
(* C19: in a tick the bullet-vs-asteroid pass runs before the              *)
(* ship-vs-asteroid test, and the ship test sees the asteroids that        *)
(* survived the pass only.  The pass does not touch the loop flag and      *)
(* removes every asteroid that overlaps both the ship and a live bullet;   *)
(* the ship test that follows ends the run exactly when the ship overlaps  *)
(* an asteroid that is still live, so that an asteroid removed by the pass *)
(* does not end the run in that tick.                                      *)
(***************************************************************************)
C19_PassBeforeShipTest ==
    /\ PassDone =>
          /\ pc = "ship_vs_asteroids"
          /\ running = last.running
          /\ player = last.player
          /\ Ids(OnShipAndBullet(last.player, last.bullets, last.asteroids))
                \cap Ids(asteroids_group) = {}
    /\ last.pc = "ship_vs_asteroids" =>
          /\ pc = "draw"
          /\ asteroids_group = last.asteroids
          /\ running = (last.running /\ ~ShipOverlaps(last.player, last.asteroids))

\* A frame is drawn with the run still on although, in this tick, an
\* asteroid overlapping the ship was live before the pass: the pass has
\* removed it.
C19_Witness ==
    /\ pc = "draw"
    /\ running
    /\ \E a \in atTop.asteroids :
          /\ a.id \notin Ids(asteroids_group)
          /\ RectsOverlap(PlayerRect(player),
                          RectAt(wrap_position(VAdd(a.position, a.velocity)),
                                 a.size, a.size))

\* SCALE times the unit vector of the firing direction at heading h: up on
\* the screen at heading 0, turning counter-clockwise as h grows.
FireDirection(h) == Vec(-Sin(h), -Cos(h))

\* The bullets of the live group created in the current tick.
BornInTick == {b \in SeqToSet(bullets_group) : b.born = tick}

\* q is p + d, up to the rounding of the sum.
IsSum(q, p, d) == /\ Abs(q[1] - (p[1] + d[1])) <= Ulp(p[1] + d[1])
                  /\ Abs(q[2] - (p[2] + d[2])) <= Ulp(p[2] + d[2])

(***************************************************************************)
(* C20: a bullet fired in tick t is spawned from the position and heading  *)
(* the ship has before the sprite update of tick t (before the rotation,   *)
(* thrust and move of that tick), OFFSET_DISTANCE ahead in the firing      *)
(* direction and with velocity BULLET_SPEED in that same direction; the    *)
(* sprite update of tick t then advances it (one step, wrapped, lifetime   *)
(* decremented) before the collision tests of tick t.                      *)
(***************************************************************************)
C20_FiredBeforeUpdate ==
    /\ pc \in {"events", "update"} =>
          /\ player = atTop.player
          /\ \A b \in BornInTick :
                /\ b.velocity = Vec(FireDirection(atTop.player.angle)[1] * BULLET_SPEED,
                                    FireDirection(atTop.player.angle)[2] * BULLET_SPEED)
                /\ IsSum(b.spawn, atTop.player.position,
                         Vec(FireDirection(atTop.player.angle)[1] * OFFSET_DISTANCE,
                             FireDirection(atTop.player.angle)[2] * OFFSET_DISTANCE))
                /\ b.position = b.spawn
                /\ b.lifetime = BULLET_LIFETIME
    /\ pc = "bullets_vs_asteroids" =>
          \A b \in BornInTick :
             /\ b.velocity = Vec(FireDirection(atTop.player.angle)[1] * BULLET_SPEED,
                                 FireDirection(atTop.player.angle)[2] * BULLET_SPEED)
             /\ IsSum(b.spawn, atTop.player.position,
                      Vec(FireDirection(atTop.player.angle)[1] * OFFSET_DISTANCE,
                          FireDirection(atTop.player.angle)[2] * OFFSET_DISTANCE))
             /\ b.position = wrap_position(VAdd(b.spawn, b.velocity))
             /\ b.lifetime = BULLET_LIFETIME - 1

\* A bullet fired in a tick of rotation and thrust is about to be tested:
\* it has moved one step from where the ship was before turning and moving.
C20_Witness ==
    /\ pc = "bullets_vs_asteroids"
    /\ {"LEFT", "UP"} \subseteq keys_pressed
    /\ player.angle # atTop.player.angle
    /\ player.position # atTop.player.position
    /\ \E b \in BornInTick : b.position # b.spawn /\ b.lifetime = BULLET_LIFETIME - 1

====
